---- MODULE Spec2Model ----
(***************************************************************************)
(* A model of the aqi-nowcast worker (src/src/index.ts): the hourly        *)
(* reducer, the per-hour entries and the series cache kept in Workers KV,  *)
(* the ingest pass with its two alert rules, and the read handlers.        *)
(*                                                                         *)
(* Readings are integers in hundredths of a ug/m3 (the reducer rounds to   *)
(* two decimals with toFixed(2)), so 90 is 9000 and 89.9 is 8990.          *)
(* Timestamps are hour indices: the source uses fixed-width ISO-8601       *)
(* strings, whose lexicographic order is the order of the hours.           *)
(***************************************************************************)
EXTENDS Integers, Sequences, FiniteSets, TLC

VARIABLES
    kv,       \* the per-hour entries 'pm25:<ts>' of AQI_KV: hour -> reading
    cache,    \* the value under SERIES_KEY: NoCache, or a sequence of [ts, pm25]
    clock,    \* the UTC hour of "now"
    env,      \* the worker's bindings (secrets and the alert threshold)
    res,      \* what the last handler returned
    outbox,   \* the telegram() calls of the last handler, in order
    edge,     \* caches.default: the responses kept for the two read routes
    pc,       \* where each overlapping invocation stands (its next await)
    loc       \* the local variables of each overlapping invocation

vars == <<kv, cache, clock, env, res, outbox, edge, pc, loc>>

\* ---------------------------------------------------------------- bounds

\* The last hour the clock reaches.
MaxClock == 5
\* How many instants of an hour the raw measurements of the fallback carry.
TicksPerHour == 2
\* How many bucket keys the selection is tried on at most.
MaxKeys == 3

\* ------------------------------------------------------ program constants

\* const keep = 24 * 60 (index.ts:198), scaled down so that a run of
\* MaxClock hours exceeds it.
keep == 4
\* keys.slice(-72) (index.ts:175), scaled down with keep: smaller than keep.
SeriesWindow == 3
\* series.slice(-6, -1) (index.ts:205): the baseline holds at most 5 readings.
HistLen == 5
\* The floor of the spike rule, Math.max(10, ...) (index.ts:207), in hundredths.
SpikeFloor == 1000
\* The default threshold, ?? '90' (index.ts:210), in hundredths.
DefaultThreshold == 9000
\* series.slice(-24) (index.ts:229), scaled down with SeriesWindow: smaller
\* than the series window, as 24 is smaller than 72.
ForecastWindow == 2

\* ----------------------------------------------------------- JS values

\* The values of JavaScript that are no finite number are integers below
\* every reading and hour of the model; every comparison tests isFinite first,
\* as a comparison with NaN or undefined is false.
NaN == -1000001
Undefined == -1000002
Null == -1000003
isFinite(v) == v > NaN

\* The cache key is absent, or holds an array.
NoCache == [present |-> FALSE, series |-> <<>>]
Cached(out) == [present |-> TRUE, series |-> out]

Max2(a, b) == IF a >= b THEN a ELSE b
Min2(a, b) == IF a <= b THEN a ELSE b

\* Array.prototype.slice(start, end), negative indices counted from the end.
Slice(s, start, end) ==
    LET n == Len(s)
        lo == IF start < 0 THEN Max2(n + start, 0) ELSE Min2(start, n)
        hi == IF end < 0 THEN Max2(n + end, 0) ELSE Min2(end, n)
    IN SubSeq(s, lo + 1, hi)

SliceFrom(s, start) == Slice(s, start, Len(s))

RECURSIVE sum(_)
sum(arr) == IF arr = <<>> THEN 0 ELSE Head(arr) + sum(Tail(arr))

SetMax(S) == CHOOSE x \in S : \A y \in S : y <= x
SetMin(S) == CHOOSE x \in S : \A y \in S : x <= y

\* keys.sort(): the keys in ascending order.
RECURSIVE sortKeys(_)
sortKeys(S) ==
    IF S = {} THEN <<>> ELSE <<SetMin(S)>> \o sortKeys(S \ {SetMin(S)})

\* Number(s) for the strings the model draws; the empty string converts to 0.
Number(s) ==
    CASE s = "" -> 0
      [] s = "90" -> 9000
      [] s = "85" -> 8500
      [] s = "62" -> 6200
      [] OTHER -> NaN

\* A binding that is not configured, and a query parameter that is not given.
Unset == "<unset>"
\* JavaScript's falsy strings: !env.TELEGRAM_TOKEN holds for undefined and ''.
Falsy(s) == s \in {Unset, ""}

\* ------------------------------------------------------------- inputs

\* The readings the upstream reports, in hundredths.
Values == {7900, 8990, 9000}
\* A reading below zero, as instruments report at low concentrations: the
\* reducer keeps every finite value.
NegativeValue == 0 - 500

\* The bindings a deployment may have.
Env(token, chat, threshold) ==
    [TELEGRAM_TOKEN |-> token, TELEGRAM_CHAT_ID |-> chat,
     ALERT_THRESHOLD_PM25 |-> threshold]
Envs ==
    {Env("123:abc", "42", Unset), Env("123:abc", "42", "85"),
     Env(Unset, "42", "abc"), Env("123:abc", "", Unset)}

Row(t, v) == [ts |-> t, v |-> v]
OkSensor(rows) == [ok |-> TRUE, rows |-> rows]
FailedSensor == [ok |-> FALSE, rows |-> <<>>]

\* The answers of the per-sensor /hours calls for the unique sensors found
\* (at most 25 in the source): none, a failed call, one sensor with one row
\* in the hour before lastFullHour, in lastFullHour or in the hour after it,
\* a row with a non-numeric value, and three sensors whose mean needs rounding.
SensorFeeds(h) ==
    {<<>>, <<FailedSensor>>}
    \cup {<<OkSensor(<<Row(t, v)>>)>> : t \in {h - 1, h} \cap Nat, v \in Values}
    \cup {<<OkSensor(<<Row(h + 1, 9000)>>)>>}
    \cup {<<OkSensor(<<Row(h, NaN)>>)>>}
    \cup {<<FailedSensor,
            OkSensor(<<Row(h, 7900), Row(h + 1, 9000)>>),
            OkSensor(<<Row(h, 7900)>>),
            OkSensor(<<Row(Undefined, 9000), Row(h, 7901)>>)>>}

\* The answer of the primary strategy: the /locations call throws, is not ok,
\* or is ok and is followed by the per-sensor calls.
PrimaryFeeds(h) ==
    {[loc |-> "throw", sensors |-> <<>>], [loc |-> "notok", sensors |-> <<>>]}
    \cup {[loc |-> "ok", sensors |-> ss] : ss \in SensorFeeds(h)}

\* The answer of the fallback /measurements call; its rows carry instants,
\* or a date that does not parse (NaN).
\* The reading below zero is reported for the first hour only.
FallbackFeeds(h) ==
    {[fetch |-> "throw", rows |-> <<>>], [fetch |-> "notok", rows |-> <<>>],
     [fetch |-> "ok", rows |-> <<>>]}
    \cup {[fetch |-> "ok", rows |-> <<Row(h * TicksPerHour + 1, v)>>] : v \in Values}
    \cup {[fetch |-> "ok", rows |-> <<Row(t * TicksPerHour, 7900)>>] :
            t \in {h - 1, h + 1} \cap Nat}
    \cup (IF h = 0
          THEN {[fetch |-> "ok", rows |-> <<Row(0, NegativeValue)>>]} ELSE {})
    \cup {[fetch |-> "ok",
           rows |-> <<Row(h * TicksPerHour, 8989),
                      Row(h * TicksPerHour + TicksPerHour - 1, 8990)>>]}
    \cup {[fetch |-> "ok",
           rows |-> <<Row(h * TicksPerHour, 7900), Row(NaN, 9000)>>]}

\* The values of the pm25 query parameter of force-alert.
Pm25Params == {Unset, "", "abc", "62"}

\* ------------------------------------------------------------ reducer

\* isoHour(new Date(t)): the hour an instant lies in.
isoHour(t) == t \div TicksPerHour

\* A selection that forgets the filter: the latest key of all.
latestOfAll(keys, targetIso) ==
    IF keys # {} THEN SetMax(keys) ELSE Undefined

\* A selection with a strict filter, k < targetIso.
latestStrictlyBefore(keys, targetIso) ==
    LET prior == sortKeys({k \in keys : k < targetIso})
    IN IF Len(prior) > 0 THEN prior[Len(prior)] ELSE Undefined

\* keys.filter(k => k <= targetIso).sort(), then its last element.
latestAtOrBefore(keys, targetIso) ==
    LET prior == sortKeys({k \in keys : k <= targetIso})
    IN IF Len(prior) > 0 THEN prior[Len(prior)] ELSE Undefined

\* x.toFixed(d) of the quotient x = num / den (den > 0), as a whole number of
\* the units kept: the nearest integer to the magnitude, the larger one of
\* two equally near, with the sign of x.
toFixed(num, den) ==
    IF num >= 0 THEN (2 * num + den) \div (2 * den)
    ELSE 0 - ((2 * (0 - num) + den) \div (2 * den))

\* Number(mean.toFixed(2)): sum / n rounded to a whole number of hundredths.
meanFixed2(vals) == toFixed(sum(vals), Len(vals))

RECURSIVE concatRows(_)
concatRows(results) ==
    IF results = <<>> THEN <<>>
    ELSE (IF Head(results).ok THEN Head(results).rows ELSE <<>>)
         \o concatRows(Tail(results))

\* The rows kept by "if (!ts || !Number.isFinite(v)) continue".
keptRows(rows) == SelectSeq(rows, LAMBDA r : r.ts # Undefined /\ isFinite(r.v))

\* byTs[ts] / bucket[key]: the values pushed under one key, in order.
RECURSIVE bucketOf(_, _)
bucketOf(rows, key) ==
    IF rows = <<>> THEN <<>>
    ELSE (IF Head(rows).ts = key THEN <<Head(rows).v>> ELSE <<>>)
         \o bucketOf(Tail(rows), key)

bucketKeys(rows) == {rows[i].ts : i \in 1..Len(rows)}

\* The selection both strategies share: the latest bucket at or before
\* hourIso and its rounded mean, or no value.
chooseBucket(rows, hourIso) ==
    LET chosenTs == latestAtOrBefore(bucketKeys(rows), hourIso)
    IN IF chosenTs # Undefined
       THEN [ts |-> chosenTs, value |-> meanFixed2(bucketOf(rows, chosenTs))]
       ELSE [ts |-> hourIso, value |-> Undefined]

\* The primary strategy (the first try block).
primaryStrategy(hourIso, p) ==
    IF p.loc = "ok"
    THEN chooseBucket(keptRows(concatRows(p.sensors)), hourIso)
    ELSE [ts |-> hourIso, value |-> Undefined]

\* The fallback strategy (the second try block): rows are bucketed by the
\* hour of their instant. isoHour throws on a date that does not parse
\* (toISOString of an invalid Date), and the catch ends the strategy.
fallbackStrategy(hourIso, f) ==
    LET kept == keptRows(f.rows)
    IN IF f.fetch = "ok" /\ \A i \in 1..Len(kept) : kept[i].ts # NaN
       THEN chooseBucket([i \in 1..Len(kept) |->
                            Row(isoHour(kept[i].ts), kept[i].v)], hourIso)
       ELSE [ts |-> hourIso, value |-> Undefined]

\* A reducer that queries both strategies whatever the first yields.
fetchBothStrategies(now, p, f) ==
    LET hourIso == now - 1
        first == primaryStrategy(hourIso, p)
        second == fallbackStrategy(hourIso, f)
    IN [ts |-> IF first.value # Undefined THEN first.ts ELSE second.ts,
        value |-> IF first.value # Undefined THEN first.value ELSE second.value,
        fallback |-> TRUE]

\* fetchOpenAQAvgPM25 at hour now: lastFullHour is the hour before. With
\* the result goes whether the /measurements query of the fallback was
\* issued.
fetchOpenAQAvgPM25(now, p, f) ==
    LET hourIso == now - 1
        first == primaryStrategy(hourIso, p)
        second == fallbackStrategy(hourIso, f)
    IN IF first.value # Undefined
       THEN [ts |-> first.ts, value |-> first.value, fallback |-> FALSE]
       ELSE [ts |-> second.ts, value |-> second.value, fallback |-> TRUE]

\* What the reducer may return at each hour, over all the answers of the
\* upstream: the { ts, value } ingest takes of it.
reducerResults ==
    [now \in 1..Max2(MaxClock, keep + 2) |->
        {[ts |-> r.ts, value |-> r.value] :
           r \in {fetchOpenAQAvgPM25(now, p, f) :
                    p \in PrimaryFeeds(now - 1), f \in FallbackFeeds(now - 1)}}]

\* ------------------------------------------------------- series store

EmptyKV == [h \in {} |-> 0]

\* A put that leaves a key that is there as it is.
putIfAbsent(store, k, v) ==
    [h \in DOMAIN store \cup {k} |-> IF h \in DOMAIN store THEN store[h] ELSE v]

\* AQI_KV.put(k, v): the key holds v, whether or not it was there.
put(store, k, v) == [h \in DOMAIN store \cup {k} |-> IF h = k THEN v ELSE store[h]]
delete(store, k) == [h \in DOMAIN store \ {k} |-> store[h]]
\* AQI_KV.get(k, 'json'): null for a key that is not there.
get(store, k) == IF k \in DOMAIN store THEN store[k] ELSE Null

\* A put without the typeof guard: a pass without value stores a hole.
persistUnguarded(store, r) ==
    put(store, r.ts, IF isFinite(r.value) THEN r.value ELSE Null)

\* if (typeof value === 'number') await env.AQI_KV.put(`pm25:${ts}`, ...)
persist(store, r) ==
    IF isFinite(r.value) THEN put(store, r.ts, r.value) ELSE store

\* AQI_KV.list({ prefix: 'pm25:' }), its names sorted.
listKeys(store) == sortKeys(DOMAIN store)

\* A rebuild over every retained key, without the slice.
lastKeysAll(keys) == keys

\* A rebuild that takes the oldest keys, keys.slice(0, 72).
lastKeysOldest(keys) == Slice(keys, 0, SeriesWindow)

\* keys.slice(-72) of rebuildSeries.
lastKeys(keys) == SliceFrom(keys, 0 - SeriesWindow)

\* The loop of rebuildSeries: the entries whose value is a number.
seriesOf(last, values) ==
    LET all == [i \in 1..Len(last) |-> [ts |-> last[i], pm25 |-> values[i]]]
    IN SelectSeq(all, LAMBDA e : isFinite(e.pm25))

\* What rebuildSeries returns, and writes under SERIES_KEY, when nothing
\* else touches the store meanwhile.
rebuildSeries(store) ==
    LET last == lastKeys(listKeys(store))
    IN seriesOf(last, [i \in 1..Len(last) |-> get(store, last[i])])

\* getSeries: the cached array if there is one, else a rebuild (which
\* writes the cache).
getSeries(c, store) == IF c.present THEN c.series ELSE rebuildSeries(store)
cacheAfterGet(c, store) == IF c.present THEN c ELSE Cached(rebuildSeries(store))

\* A pruning that keeps one key less than keep.
oldKeysOneMore(keys) == Slice(keys, 0, Max2(0, Len(keys) - keep + 1))

\* A pruning that deletes the newest excess keys.
oldKeysNewest(keys) == SliceFrom(keys, Min2(Len(keys), keep))

\* keys.slice(0, Math.max(0, keys.length - keep)) of ingest.
oldKeys(keys) == Slice(keys, 0, Max2(0, Len(keys) - keep))

RECURSIVE deleteAll(_, _)
deleteAll(store, old) ==
    IF old = <<>> THEN store ELSE deleteAll(delete(store, Head(old)), Tail(old))

\* ------------------------------------------------------------ detector

pm25s(series) == [i \in 1..Len(series) |-> series[i].pm25]

\* series.slice(-6, -1).map(p => p.pm25)
histOf(series) == pm25s(Slice(series, 0 - (HistLen + 1), 0 - 1))

RECURSIVE sumSqDev(_, _, _)
sumSqDev(arr, n, s) ==
    IF arr = <<>> THEN 0
    ELSE (n * Head(arr) - s) * (n * Head(arr) - s) + sumSqDev(Tail(arr), n, s)

\* stddev(arr), as the integer (arr.length * stddev(arr))^2: 0 below two
\* elements, else the sum of the (n*x - sum)^2 divided by n, which is exact.
stddevSqN(arr) ==
    IF Len(arr) < 2 THEN 0
    ELSE sumSqDev(arr, Len(arr), sum(arr)) \div Len(arr)

\* A rule with an inclusive floor, value >= base + 10.
spikeFiresAtFloor(value, hist) ==
    LET n == Len(hist)
        lead == IF n > 0 THEN n * value - sum(hist) ELSE 0
    IN /\ lead >= SpikeFloor * Max2(n, 1)
       /\ lead * lead > 4 * stddevSqN(hist)

\* value > base + Math.max(10, stddev(hist) * 2), where base is the mean of
\* hist, or value when hist is empty. With lead = n * (value - base) this is
\* lead > 10 * n and lead > 2 * n * stddev, the latter compared by squares.
spikeFires(value, hist) ==
    LET n == Len(hist)
        lead == IF n > 0 THEN n * value - sum(hist) ELSE 0
    IN /\ lead > SpikeFloor * Max2(n, 1)
       /\ lead * lead > 4 * stddevSqN(hist)

\* Number(env.ALERT_THRESHOLD_PM25 ?? '90')
thresholdOf(e) ==
    IF e.ALERT_THRESHOLD_PM25 = Unset THEN DefaultThreshold
    ELSE Number(e.ALERT_THRESHOLD_PM25)

\* An exclusive bound, value > abs.
absFiresStrict(value, abs) == isFinite(abs) /\ value > abs

\* value >= abs
absFires(value, abs) == isFinite(abs) /\ value >= abs

\* What becomes of the fetch to api.telegram.org: it resolves (whatever the
\* status of the response), or it rejects.
Notifier == {"ok", "throws"}

\* A telegram without the try/catch: a fetch that rejects makes it throw.
telegramUncaught(e, kind, value, ts, net) ==
    LET attempted == ~Falsy(e.TELEGRAM_TOKEN) /\ ~Falsy(e.TELEGRAM_CHAT_ID)
    IN [kind |-> kind, value |-> value, ts |-> ts, attempted |-> attempted,
        fetches |-> IF attempted THEN 1 ELSE 0,
        delivered |-> attempted /\ net = "ok",
        threw |-> attempted /\ net = "throws"]

\* telegram(env, text): one call; a delivery is attempted only with both
\* secrets, by one fetch, and a fetch that rejects is swallowed by the
\* catch: the call never throws.
telegram(e, kind, value, ts, net) ==
    LET attempted == ~Falsy(e.TELEGRAM_TOKEN) /\ ~Falsy(e.TELEGRAM_CHAT_ID)
    IN [kind |-> kind, value |-> value, ts |-> ts, attempted |-> attempted,
        fetches |-> IF attempted THEN 1 ELSE 0,
        delivered |-> attempted /\ net = "ok",
        threw |-> FALSE]

\* The calls made one after the other: a call that throws ends the handler,
\* so the calls after it are not made.
threw(box) == \E i \in 1..Len(box) : box[i].threw
then(box, more) == IF threw(box) THEN box ELSE box \o more

\* Rules chained with else-if: a spike suppresses the absolute rule.
detectExclusive(e, ts, value, series, net) ==
    IF spikeFires(value, histOf(series))
    THEN <<telegram(e, "spike", value, ts, net)>>
    ELSE IF absFires(value, thresholdOf(e))
         THEN <<telegram(e, "absolute", value, ts, net)>> ELSE <<>>

\* The two rules of ingest, in order.
detect(e, ts, value, series, net) ==
    then(IF spikeFires(value, histOf(series))
         THEN <<telegram(e, "spike", value, ts, net)>> ELSE <<>>,
         IF absFires(value, thresholdOf(e))
         THEN <<telegram(e, "absolute", value, ts, net)>> ELSE <<>>)

\* ----------------------------------------------------------- estimator

\* Math.sqrt(q), rounded down, by bisection between lo and hi.
RECURSIVE isqrtIn(_, _, _)
isqrtIn(lo, hi, q) ==
    IF lo = hi THEN lo
    ELSE LET mid == (lo + hi + 1) \div 2
         IN IF mid * mid <= q THEN isqrtIn(mid, hi, q) ELSE isqrtIn(lo, mid - 1, q)
isqrt(q) == isqrtIn(0, 46340, q)

\* a <= Math.sqrt(q) and a >= Math.sqrt(q), compared by squares.
leSqrt(a, q) == a <= 0 \/ a * a <= q
geSqrt(a, q) == a >= 0 /\ a * a >= q

\* Number((mean + s).toFixed(1)) in tenths, for n readings in hundredths with
\* sum S and (n * s)^2 = q: the nearest tenth to (S + sqrt(q)) / (10 * n), the
\* one of larger magnitude of two equally near.
highFixed1(S, n, q) ==
    LET c == (S + isqrt(q)) \div (10 * n)
    IN IF S >= 0 \/ S * S <= q
       THEN SetMax({t \in (c - 1)..(c + 2) : leSqrt((2 * t - 1) * 5 * n - S, q)})
       ELSE SetMin({t \in (c - 1)..(c + 2) : geSqrt((2 * t + 1) * 5 * n - S, q)})

\* Number(Math.max(0, mean - s).toFixed(1)) in tenths.
lowFixed1(S, n, q) ==
    LET c == (S - isqrt(q)) \div (10 * n)
    IN IF leSqrt(S, q) THEN 0
       ELSE SetMax({t \in (c - 2)..(c + 1) : geSqrt(S - (2 * t - 1) * 5 * n, q)})

\* The band of the forecast payload over vals, in tenths: pm25_mean,
\* pm25_low, pm25_high and samples.
NoBand == [mean |-> Undefined, low |-> Undefined, high |-> Undefined, samples |-> 0]
forecastBand(vals) ==
    LET n == Len(vals)
        S == sum(vals)
        q == stddevSqN(vals)
    IN [mean |-> toFixed(S, 10 * n), low |-> lowFixed1(S, n, q),
        high |-> highFixed1(S, n, q), samples |-> n]

\* ------------------------------------------------------------ handlers

\* What a handler returned; fields a handler does not set are Undefined or
\* empty. With it are kept what the pass computed on the way (the baseline
\* window hist, the number of keys pruned), the pm25 parameter of a
\* force-alert, whether an ingest pass repeated the absolute alert of the
\* pass before it, and whether it overwrote another value under its key. A read carries the hours field of a timeseries, the
\* band of a forecast, and whether the edge cache answered it.
Result(op, status, ts, value, hourIso, hist, pruned, series) ==
    [op |-> op, status |-> status, ts |-> ts, value |-> value,
     hourIso |-> hourIso, hist |-> hist, pruned |-> pruned, series |-> series,
     q |-> Unset, realert |-> FALSE, overwrote |-> FALSE,
     hit |-> FALSE, hours |-> Undefined, band |-> NoBand]
NoResult == Result("none", 0, Undefined, Undefined, Undefined, <<>>, 0, <<>>)

\* caches.default, keyed by the request: the response kept for each read
\* route, if any. The Cache API keeps a response at its discretion; retain
\* tells whether this data centre keeps the responses put to it at all.
NoEdge(retain) ==
    [retain |-> retain, forecast |-> NoResult, timeseries |-> NoResult]

sent(box, kind) == \E i \in 1..Len(box) : box[i].kind = kind

\* The status of a handler's response: 500 when a call it awaited threw.
statusOf(box, status) == IF threw(box) THEN 500 ELSE status

\* One ingest pass run alone, on the reducer's result r and with the
\* notifier's fetches ending as net: the store, the cache and the calls it
\* leaves, and what it returns.
ingest(store, e, now, r, net) ==
    LET hasValue == isFinite(r.value)
        kv1 == persist(store, r)
        old == oldKeys(listKeys(kv1))
        kv2 == deleteAll(kv1, old)
        rebuilt == Cached(rebuildSeries(kv2))
        series == getSeries(rebuilt, kv2)
        box == IF hasValue THEN detect(e, r.ts, r.value, series, net) ELSE <<>>
    IN [kv |-> kv2,
        cache |-> cacheAfterGet(rebuilt, kv2),
        outbox |-> box,
        res |-> Result("ingest", statusOf(box, 200), r.ts, r.value, now - 1,
                       IF hasValue THEN histOf(series) ELSE <<>>,
                       Len(old), <<>>)]

\* POST /tasks/ingest and the scheduled trigger: both run ingest(env).
Ingest ==
    \E done \in {ingest(kv, env, clock, r, net) :
                   r \in reducerResults[clock], net \in Notifier} :
        LET r == [ts |-> done.res.ts, value |-> done.res.value]
        IN /\ kv' = done.kv
           /\ cache' = done.cache
           /\ outbox' = done.outbox
           /\ res' = [done.res EXCEPT
                        !.realert = /\ res.op = "ingest"
                                    /\ sent(outbox, "absolute")
                                    /\ sent(done.outbox, "absolute"),
                        !.overwrote = /\ isFinite(r.value)
                                      /\ r.ts \in DOMAIN kv
                                      /\ kv[r.ts] # r.value]
           /\ UNCHANGED <<clock, env, pc, loc, edge>>

\* The response /forecast computes from the series: 503 when it is empty,
\* else the band over its last ForecastWindow entries.
forecast(series) ==
    IF Len(series) = 0
    THEN Result("forecast", 503, Undefined, Undefined, Undefined, <<>>, 0, <<>>)
    ELSE LET last24 == SliceFrom(series, 0 - ForecastWindow)
         IN [Result("forecast", 200, Undefined, Undefined, Undefined, <<>>, 0,
                    last24)
             EXCEPT !.band = forecastBand(pm25s(last24))]

\* GET /forecast: a response kept at the edge answers at once; else the
\* series is read and the response computed, and a 200 is put to the edge.
Forecast ==
    \E hit \in {FALSE} \cup {edge.forecast.op # "none"} :
        LET answer == forecast(getSeries(cache, kv))
        IN /\ cache' = IF hit THEN cache ELSE cacheAfterGet(cache, kv)
           /\ res' = IF hit THEN [edge.forecast EXCEPT !.hit = TRUE] ELSE answer
           /\ edge' = IF ~hit /\ answer.status = 200 /\ edge.retain
                      THEN [edge EXCEPT !.forecast = answer] ELSE edge
           /\ outbox' = <<>>
           /\ UNCHANGED <<kv, clock, env, pc, loc>>

\* A timeseries that answers an empty series as the forecast does.
timeseriesUnavailable(series) == IF Len(series) = 0 THEN 503 ELSE 200

\* The status /timeseries answers with.
timeseriesStatus(series) == 200

\* The response /timeseries computes from the series.
timeseries(series) ==
    [Result("timeseries", timeseriesStatus(series), Undefined, Undefined,
            Undefined, <<>>, 0, series)
     EXCEPT !.hours = Len(series)]

\* GET /timeseries
Timeseries ==
    \E hit \in {FALSE} \cup {edge.timeseries.op # "none"} :
        LET answer == timeseries(getSeries(cache, kv))
        IN /\ cache' = IF hit THEN cache ELSE cacheAfterGet(cache, kv)
           /\ res' = IF hit THEN [edge.timeseries EXCEPT !.hit = TRUE] ELSE answer
           /\ edge' = IF ~hit /\ edge.retain
                      THEN [edge EXCEPT !.timeseries = answer] ELSE edge
           /\ outbox' = <<>>
           /\ UNCHANGED <<kv, clock, env, pc, loc>>

\* A response kept at the edge reaches its s-maxage of 60 seconds, or is
\* evicted.
Expire ==
    \E route \in {"forecast", "timeseries"} :
        /\ edge[route].op # "none"
        /\ edge' = [edge EXCEPT ![route] = NoResult]
        /\ UNCHANGED <<kv, cache, clock, env, res, outbox, pc, loc>>

\* The value force-alert uses: Number(q.get('pm25') ?? ''), or the last
\* reading of the series when that is not finite.
lastPm25(series) == IF Len(series) > 0 THEN series[Len(series)].pm25 ELSE Undefined
forcedValue(q, series) ==
    LET v == Number(IF q = Unset THEN "" ELSE q)
    IN IF isFinite(v) THEN v ELSE lastPm25(series)

\* POST /tasks/force-alert
ForceAlert ==
    \E q \in Pm25Params, net \in Notifier :
        LET v == Number(IF q = Unset THEN "" ELSE q)
            series == IF isFinite(v) THEN <<>> ELSE getSeries(cache, kv)
            value == forcedValue(q, series)
            box == IF isFinite(value)
                   THEN <<telegram(env, "forced", value, clock, net)>> ELSE <<>>
        IN /\ cache' = IF isFinite(v) THEN cache ELSE cacheAfterGet(cache, kv)
           /\ outbox' = box
           /\ res' = [Result("force-alert",
                             statusOf(box, IF isFinite(value) THEN 200 ELSE 400),
                             IF isFinite(value) THEN clock ELSE Undefined,
                             IF isFinite(value) THEN value ELSE Undefined,
                             Undefined, <<>>, 0, <<>>)
                      EXCEPT !.q = q]
           /\ UNCHANGED <<kv, clock, env, pc, loc, edge>>

\* The wall clock reaches the next hour; no response is kept that long.
Tick ==
    /\ clock < MaxClock
    /\ clock' = clock + 1
    /\ edge' = NoEdge(edge.retain)
    /\ UNCHANGED <<kv, cache, env, res, outbox, pc, loc>>

\* The invocations that may overlap: the two triggers of ingest, and a read.
Passes == {"scheduled", "manual"}
Procs == Passes \cup {"reader"}
NoLocals ==
    [ts |-> Undefined, value |-> Undefined, old |-> <<>>, last |-> <<>>,
     values |-> <<>>, box |-> <<>>]

Init ==
    /\ kv = EmptyKV
    /\ cache = NoCache
    /\ clock = 1
    /\ env \in Envs
    /\ res = NoResult
    /\ outbox = <<>>
    /\ edge = NoEdge(FALSE)
    /\ pc = [p \in Procs |-> "idle"]
    /\ loc = [p \in Procs |-> NoLocals]

Next == Ingest \/ Forecast \/ Timeseries \/ ForceAlert \/ Tick

Spec == Init /\ [][Next]_vars

\* ------------------------------------------------ overlapping invocations

\* The worker takes no lock: each await of a handler is a step of its own,
\* and the steps of overlapping invocations interleave. Each of the two
\* triggers runs one ingest pass and the reader one getSeries, from a store
\* that hourly passes run alone have filled with the readings of n hours;
\* the last of them is the hour before lastFullHour, or the one before that
\* when the upstream had no data for an hour.
FilledKV(n) == [h \in 0..(n - 1) |-> 7900]

InitConc ==
    /\ \E n \in 0..keep, missed \in {0, 1} :
          /\ kv = FilledKV(n)
          /\ cache = IF n = 0 THEN NoCache ELSE Cached(rebuildSeries(FilledKV(n)))
          /\ clock = n + 1 + missed
    /\ env = Env("123:abc", "42", Unset)
    /\ res = NoResult
    /\ outbox = <<>>
    /\ edge = NoEdge(FALSE)
    /\ pc = [p \in Procs |-> "idle"]
    /\ loc = [p \in Procs |-> NoLocals]

goto(p, label) == pc' = [pc EXCEPT ![p] = label]

\* ingest, line 194: the reducer's answer arrives.
CFetch(p) ==
    /\ p \in Passes
    /\ pc[p] = "idle"
    /\ \E r \in reducerResults[clock] :
          loc' = [loc EXCEPT ![p] = [NoLocals EXCEPT !.ts = r.ts, !.value = r.value]]
    /\ goto(p, "put")
    /\ UNCHANGED <<kv, cache, clock, env, res, outbox, edge>>

\* ingest, line 195: the put of the reading, when there is one.
CPut(p) ==
    /\ pc[p] = "put"
    /\ kv' = persist(kv, loc[p])
    /\ goto(p, "list")
    /\ UNCHANGED <<cache, clock, env, res, outbox, loc, edge>>

\* A pass that rebuilds the cache only when it has a value.
CListSkipsRebuild(p) ==
    /\ pc[p] = "list"
    /\ loc' = [loc EXCEPT ![p].old = oldKeys(listKeys(kv))]
    /\ goto(p, IF oldKeys(listKeys(kv)) # <<>> THEN "prune"
               ELSE IF isFinite(loc[p].value) THEN "rlist" ELSE "done")
    /\ UNCHANGED <<kv, cache, clock, env, res, outbox, edge>>

\* ingest, lines 196-199: the listing, and the keys to delete.
CList(p) ==
    /\ pc[p] = "list"
    /\ loc' = [loc EXCEPT ![p].old = oldKeys(listKeys(kv))]
    /\ goto(p, IF oldKeys(listKeys(kv)) = <<>> THEN "rlist" ELSE "prune")
    /\ UNCHANGED <<kv, cache, clock, env, res, outbox, edge>>

\* ingest, line 200: one delete of the loop.
CDelete(p) ==
    /\ pc[p] = "prune"
    /\ kv' = delete(kv, Head(loc[p].old))
    /\ loc' = [loc EXCEPT ![p].old = Tail(loc[p].old)]
    /\ goto(p, IF Tail(loc[p].old) = <<>> THEN "rlist" ELSE "prune")
    /\ UNCHANGED <<cache, clock, env, res, outbox, edge>>

\* rebuildSeries, lines 173-175: the listing.
RList(p) ==
    /\ pc[p] = "rlist"
    /\ loc' = [loc EXCEPT ![p].last = lastKeys(listKeys(kv)), ![p].values = <<>>]
    /\ goto(p, IF lastKeys(listKeys(kv)) = <<>> THEN "rput" ELSE "rget")
    /\ UNCHANGED <<kv, cache, clock, env, res, outbox, edge>>

\* rebuildSeries, line 176: one get of the Promise.all.
RGet(p) ==
    /\ pc[p] = "rget"
    /\ LET values == Append(loc[p].values,
                            get(kv, loc[p].last[Len(loc[p].values) + 1]))
       IN /\ loc' = [loc EXCEPT ![p].values = values]
          /\ goto(p, IF Len(values) = Len(loc[p].last) THEN "rput" ELSE "rget")
    /\ UNCHANGED <<kv, cache, clock, env, res, outbox, edge>>

\* A rebuild that appends what it read to the cached array.
RPutAppend(p) ==
    /\ pc[p] = "rput"
    /\ cache' = Cached(cache.series \o seriesOf(loc[p].last, loc[p].values))
    /\ goto(p, IF p \in Passes /\ isFinite(loc[p].value) THEN "detect" ELSE "done")
    /\ UNCHANGED <<kv, clock, env, res, outbox, loc, edge>>

\* rebuildSeries, lines 177-183: the put of the series; an ingest with a
\* value goes on to its rules.
RPut(p) ==
    /\ pc[p] = "rput"
    /\ cache' = Cached(seriesOf(loc[p].last, loc[p].values))
    /\ goto(p, IF p \in Passes /\ isFinite(loc[p].value) THEN "detect" ELSE "done")
    /\ UNCHANGED <<kv, clock, env, res, outbox, loc, edge>>

\* ingest, lines 203-214: the series is read back, and the rules call
\* telegram.
CDetect(p) ==
    /\ pc[p] = "detect"
    /\ cache' = cacheAfterGet(cache, kv)
    /\ \E net \in Notifier :
          loc' = [loc EXCEPT ![p].box =
                    detect(env, loc[p].ts, loc[p].value, getSeries(cache, kv), net)]
    /\ goto(p, "done")
    /\ UNCHANGED <<kv, clock, env, res, outbox, edge>>

\* getSeries of a read handler, line 186: a cached array is returned, else
\* the rebuild starts.
ReadStart ==
    /\ pc["reader"] = "idle"
    /\ goto("reader", IF cache.present THEN "done" ELSE "rlist")
    /\ UNCHANGED <<kv, cache, clock, env, res, outbox, loc, edge>>

NextConc ==
    \/ ReadStart
    \/ \E p \in Procs :
          CFetch(p) \/ CPut(p) \/ CList(p) \/ CDelete(p)
          \/ RList(p) \/ RGet(p) \/ RPut(p) \/ CDetect(p)

SpecConc == InitConc /\ [][NextConc]_vars

\* No invocation is in flight.
Quiet == \A p \in Procs : pc[p] \in {"idle", "done"}

\* ------------------------------------------- reads behind the edge cache

\* The read handlers at a data centre that keeps responses, with ingest
\* passes run alone during one hour, from a store that hourly passes have
\* filled with n readings.
InitEdge ==
    /\ \E n \in 0..keep :
          /\ kv = FilledKV(n)
          /\ cache = IF n = 0 THEN NoCache ELSE Cached(rebuildSeries(FilledKV(n)))
          /\ clock = n + 1
    /\ env = Env("123:abc", "42", Unset)
    /\ res = NoResult
    /\ outbox = <<>>
    /\ edge = NoEdge(TRUE)
    /\ pc = [p \in Procs |-> "idle"]
    /\ loc = [p \in Procs |-> NoLocals]

NextEdge == Ingest \/ Forecast \/ Timeseries \/ Expire

SpecEdge == InitEdge /\ [][NextEdge]_vars

\* ------------------------------------------------- the spike rule alone

\* The readings of a baseline window and the current values the rule is
\* tried on.
RuleValues == {4800, 4900, 5000, 5100, 5200, 7500}
RuleCurrents == {5000, 5800, 6000, 6001, 6200, 7500}
RuleWindows == UNION {[1..n -> RuleValues] : n \in 0..HistLen}

\* The inputs of the rule: a current value and the window hist of a pass.
InitRule ==
    /\ kv = EmptyKV
    /\ cache = NoCache
    /\ clock = 1
    /\ env = Env("123:abc", "42", Unset)
    /\ res \in {[NoResult EXCEPT !.op = "rule-input", !.value = v, !.hist = w] :
                  v \in RuleCurrents, w \in RuleWindows}
    /\ outbox = <<>>
    /\ edge = NoEdge(FALSE)
    /\ pc = [p \in Procs |-> "idle"]
    /\ loc = [p \in Procs |-> NoLocals]

\* The spike rule of ingest applied to the inputs.
EvaluateRule ==
    /\ res.op = "rule-input"
    /\ outbox' = IF spikeFires(res.value, res.hist)
                 THEN <<telegram(env, "spike", res.value, clock, "ok")>> ELSE <<>>
    /\ res' = [res EXCEPT !.op = "rule"]
    /\ UNCHANGED <<kv, cache, clock, env, pc, loc, edge>>

NextRule == EvaluateRule

SpecRule == InitRule /\ [][NextRule]_vars

\* --------------------------------------------------- the reducer alone

\* The inputs of the reducer: the hour of now and the answers of the
\* upstream to the two strategies.
InitReduce ==
    /\ kv = EmptyKV
    /\ cache = NoCache
    /\ clock \in 1..MaxClock
    /\ env = Env("123:abc", "42", Unset)
    /\ res \in {[op |-> "reduce-input", primary |-> p, measurements |-> f,
                  ts |-> Undefined, value |-> Undefined, fallback |-> FALSE] :
                  p \in PrimaryFeeds(clock - 1), f \in FallbackFeeds(clock - 1)}
    /\ outbox = <<>>
    /\ edge = NoEdge(FALSE)
    /\ pc = [p \in Procs |-> "idle"]
    /\ loc = [p \in Procs |-> NoLocals]

\* fetchOpenAQAvgPM25 applied to the inputs.
Reduce ==
    /\ res.op = "reduce-input"
    /\ \E r \in {fetchOpenAQAvgPM25(clock, res.primary, res.measurements)} :
          res' = [res EXCEPT !.op = "reduce", !.ts = r.ts, !.value = r.value,
                             !.fallback = r.fallback]
    /\ UNCHANGED <<kv, cache, clock, env, outbox, edge, pc, loc>>

NextReduce == Reduce

SpecReduce == InitReduce /\ [][NextReduce]_vars

\* ------------------------------------------------- the selection alone

\* The arrays of bucket keys, Object.keys(byTs): up to MaxKeys distinct keys
\* in the order of their insertion.
Range(seq) == {seq[i] : i \in 1..Len(seq)}
KeyArrays ==
    {ks \in UNION {[1..n -> 0..MaxClock] : n \in 0..MaxKeys} :
       Cardinality(Range(ks)) = Len(ks)}

\* The inputs of the selection: the bucket keys and the target hour.
InitSelect ==
    /\ kv = EmptyKV
    /\ cache = NoCache
    /\ clock = 1
    /\ env = Env("123:abc", "42", Unset)
    /\ res \in {[NoResult EXCEPT !.op = "select-input", !.hist = ks, !.hourIso = t] :
                  ks \in KeyArrays, t \in 0..MaxClock}
    /\ outbox = <<>>
    /\ edge = NoEdge(FALSE)
    /\ pc = [p \in Procs |-> "idle"]
    /\ loc = [p \in Procs |-> NoLocals]

\* latestAtOrBefore applied to the inputs.
Select ==
    /\ res.op = "select-input"
    /\ res' = [res EXCEPT !.op = "select",
                          !.ts = latestAtOrBefore(Range(res.hist), res.hourIso)]
    /\ UNCHANGED <<kv, cache, clock, env, outbox, edge, pc, loc>>

NextSelect == Select

SpecSelect == InitSelect /\ [][NextSelect]_vars

\* --------------------------------------------------------- properties

\* The n greatest elements of S.
TopKeys(S, n) == {k \in S : Cardinality({j \in S : j > k}) < n}

\* series is what a rebuild of store yields: the entries of the SeriesWindow
\* greatest keys, each with its stored value, in ascending order.
IsRebuildOf(series, store) ==
    /\ {series[i].ts : i \in 1..Len(series)} = TopKeys(DOMAIN store, SeriesWindow)
    /\ \A i \in 1..Len(series) : series[i].pm25 = store[series[i].ts]
    /\ \A i, j \in 1..Len(series) : i < j => series[i].ts < series[j].ts

count(box, kind) == Cardinality({i \in 1..Len(box) : box[i].kind = kind})

RECURSIVE sumSq(_)
sumSq(arr) == IF arr = <<>> THEN 0 ELSE Head(arr) * Head(arr) + sumSq(Tail(arr))

\* current > mean(W) + max(10, 2 * population-stddev(W)) for a non-empty W,
\* with the variance taken as the mean of the squares less the square of the
\* mean: n*current - sum > 10*n and (n*current - sum)^2 > 4*(n*sumsq - sum^2).
SpikeCondition(current, W) ==
    LET n == Len(W)
        lead == n * current - sum(W)
    IN /\ n > 0
       /\ lead > 1000 * n
       /\ lead * lead > 4 * (n * sumSq(W) - sum(W) * sum(W))

IngestDone == res.op = "ingest"
IngestWithValue == res.op = "ingest" /\ isFinite(res.value)

\* C1: after an ingest pass run alone at most keep per-hour keys persist, and
\* they are the greatest keys among those before the pass and the one the
\* pass wrote; nothing is deleted at or below the cap.
C1_PruneKeepsGreatest ==
    [][res'.op = "ingest" =>
         LET all == DOMAIN kv \cup
                    (IF isFinite(res'.value) THEN {res'.ts} ELSE {})
         IN /\ Cardinality(DOMAIN kv') <= keep
            /\ DOMAIN kv' = TopKeys(all, keep)
            /\ (Cardinality(all) <= keep => DOMAIN kv' = all)]_vars

\* C1 witness: a pass has pruned and left exactly keep keys.
C1_Witness == IngestDone /\ res.pruned > 0 /\ Cardinality(DOMAIN kv) = keep

\* C2: between handlers, a cache that is present holds exactly the rebuild of
\* the persisted per-hour entries.
C2_CacheMatchesRebuild ==
    cache.present =>
        /\ IsRebuildOf(cache.series, kv)
        /\ cache.series = rebuildSeries(kv)

\* C2 witness: a cache of a store with more keys than the series window,
\* after a read.
C2_Witness ==
    /\ cache.present
    /\ Cardinality(DOMAIN kv) > SeriesWindow
    /\ res.op = "timeseries"

\* C3, as claimed: once every overlapping invocation has completed, a cache
\* that is present holds the rebuild of the persisted per-hour entries.
C3_NoStaleCacheAfterOverlap ==
    (Quiet /\ cache.present) => cache.series = rebuildSeries(kv)

\* C4, as claimed: the baseline window of a pass with a value is the up-to-5
\* readings that precede the pass's own reading in the series, so it never
\* holds that reading.
C4_BaselinePrecedesCurrent ==
    IngestWithValue =>
        res.hist = SliceFrom(pm25s(SelectSeq(cache.series,
                                             LAMBDA e : e.ts < res.ts)), 0 - 5)

\* C5, as claimed: the timestamp of a pass is always lastFullHour.
C5_TimestampIsLastFullHour == IngestDone => res.ts = res.hourIso

\* C5, amended: the timestamp of a pass is lastFullHour when no value is
\* present; with a value it is the key the value is persisted under, which is
\* at or before lastFullHour.
C5_TimestampAtOrBeforeLastFullHour ==
    IngestDone =>
        /\ res.ts <= res.hourIso
        /\ ~isFinite(res.value) => res.ts = res.hourIso
        /\ isFinite(res.value) =>
               res.ts \in DOMAIN kv /\ kv[res.ts] = res.value

\* C5 witness: a pass persisted a value under an hour before lastFullHour.
C5_Witness == IngestWithValue /\ res.ts < res.hourIso

\* C6, as claimed: a force-alert without override uses the last reading of
\* the series, fails with 400 and no notification when there is none, and
\* else sends one notification and reports its value.
C6_ForceAlertResolvesValue ==
    res.op = "force-alert" =>
        LET series == getSeries(cache, kv)
        IN /\ (res.q = Unset /\ Len(series) > 0) =>
                   res.status = 200 /\ res.value = lastPm25(series)
           /\ (res.q = Unset /\ Len(series) = 0) => res.status = 400
           /\ res.status = 400 => outbox = <<>>
           /\ res.status = 200 =>
                   Len(outbox) = 1 /\ outbox[1].value = res.value

\* C7: a pass without upstream data returns lastFullHour with no value,
\* leaves the per-hour entries and the series get() returns as they were, and
\* sends nothing.
C7_NoDataPassChangesNothing ==
    [][(res'.op = "ingest" /\ ~isFinite(res'.value)) =>
         /\ res'.status = 200
         /\ res'.value = Undefined
         /\ res'.ts = res'.hourIso
         /\ kv' = kv
         /\ getSeries(cache', kv') = getSeries(cache, kv)
         /\ outbox' = <<>>]_vars

\* C7 witness: a pass without data has run on a store that holds readings.
C7_Witness ==
    IngestDone /\ ~isFinite(res.value) /\ DOMAIN kv # {} /\ outbox = <<>>

\* C8: a pass sends at most one notification per rule, and as many as rules
\* triggered; the rules do not suppress each other.
C8_OneNotificationPerTriggeredRule ==
    IngestDone =>
        LET spike == isFinite(res.value) /\ SpikeCondition(res.value, res.hist)
            abs == /\ isFinite(res.value)
                   /\ isFinite(thresholdOf(env))
                   /\ res.value >= thresholdOf(env)
        IN /\ count(outbox, "spike") = (IF spike THEN 1 ELSE 0)
           /\ count(outbox, "absolute") = (IF abs THEN 1 ELSE 0)
           /\ Len(outbox) = count(outbox, "spike") + count(outbox, "absolute")

\* C8 witness: both rules fired in one pass.
C8_Witness ==
    IngestDone /\ Len(outbox) = 2
    /\ outbox[1].kind = "spike" /\ outbox[2].kind = "absolute"

\* C9: a pass with a value sends the absolute notification exactly when the
\* value is at or above the threshold, 90 when none is configured, whatever
\* the passes before it sent.
C9_AbsoluteRuleInclusive ==
    IngestWithValue =>
        /\ env.ALERT_THRESHOLD_PM25 = Unset =>
               (sent(outbox, "absolute") <=> res.value >= 9000)
        /\ env.ALERT_THRESHOLD_PM25 = "85" =>
               (sent(outbox, "absolute") <=> res.value >= 8500)
        /\ env.ALERT_THRESHOLD_PM25 = "abc" => ~sent(outbox, "absolute")
        /\ (res.value = 8990 /\ env.ALERT_THRESHOLD_PM25 = Unset) =>
               ~sent(outbox, "absolute")

\* C9 witness: a pass at exactly 90 alerted under the default threshold,
\* right after a pass that had alerted too.
C9_Witness ==
    /\ IngestWithValue
    /\ res.value = 9000
    /\ env.ALERT_THRESHOLD_PM25 = Unset
    /\ sent(outbox, "absolute")
    /\ res.realert

\* C10: on the window W of a pass the spike rule fires exactly when
\* current > mean(W) + max(10, 2 * stddev(W)); on [50, 52, 48, 51, 49] it
\* fires above 60, so at 62 and not at 58, and on a flat window it does not
\* fire for an increase of 10 or less.
C10_SpikeRuleThreshold ==
    res.op = "rule" =>
        /\ sent(outbox, "spike") <=> SpikeCondition(res.value, res.hist)
        /\ res.hist = <<5000, 5200, 4800, 5100, 4900>> =>
               (sent(outbox, "spike") <=> res.value > 6000)
        /\ (/\ Len(res.hist) > 0
            /\ \A i \in 1..Len(res.hist) : res.hist[i] = res.hist[1]
            /\ res.value - res.hist[1] <= 1000) => ~sent(outbox, "spike")

\* C10 witness: the rule fired at 62 on the window [50, 52, 48, 51, 49].
C10_Witness ==
    /\ res.op = "rule"
    /\ res.hist = <<5000, 5200, 4800, 5100, 4900>>
    /\ res.value = 6200
    /\ sent(outbox, "spike")

C12_ForecastBand ==
    (res.op = "forecast" /\ res.status = 200) =>
        /\ res.band.low >= 0
        /\ res.band.high >= res.band.low
        /\ res.band.samples = Len(res.series)
        /\ ~res.hit =>
               /\ res.series = SliceFrom(cache.series, 0 - ForecastWindow)
               /\ res.band.samples = Min2(ForecastWindow, Len(cache.series))
        /\ res.band.samples = 1 =>
               res.band.low = res.band.mean /\ res.band.mean = res.band.high

\* All the timestamps of a series differ.
DistinctTs(series) ==
    \A i, j \in 1..Len(series) : series[i].ts = series[j].ts => i = j

\* C13: a pass that resolves to a timestamp an earlier pass persisted leaves
\* the set of per-hour keys as it was, with that one key holding the value
\* of the later pass; and the series get() and rebuild() return never hold
\* two readings of one timestamp.
C13_SameTimestampOverwrites ==
    [][(res'.op = "ingest" /\ isFinite(res'.value) /\ res'.ts \in DOMAIN kv) =>
         /\ DOMAIN kv' = DOMAIN kv
         /\ kv'[res'.ts] = res'.value
         /\ \A k \in DOMAIN kv \ {res'.ts} : kv'[k] = kv[k]
         /\ \A series \in {getSeries(cache', kv'), rebuildSeries(kv')} :
                DistinctTs(series)]_vars

\* C13 witness: a pass has replaced the different value an earlier pass had
\* persisted under the same timestamp.
C13_Witness ==
    /\ IngestWithValue
    /\ res.overwrote
    /\ kv[res.ts] = res.value
    /\ Len(SelectSeq(cache.series, LAMBDA e : e.ts = res.ts)) = 1

\* What the rebuild of invocation p returned.
rebuilt(p) == seriesOf(loc[p].last, loc[p].values)

\* C14: when the two passes have run their rebuilds, one after the other or
\* overlapping, and neither wrote a per-hour entry, both rebuilds returned
\* the same sequence, and the cache key holds it.
C14_RebuildIdempotent ==
    (\A p \in Passes : pc[p] = "done" /\ ~isFinite(loc[p].value)) =>
        /\ rebuilt("scheduled") = rebuilt("manual")
        /\ cache = Cached(rebuilt("manual"))
        /\ cache.series = rebuildSeries(kv)

\* C14 witness: two rebuilds without a write in between have run on a store
\* that holds more readings than the series window.
C14_Witness ==
    /\ \A p \in Passes : pc[p] = "done" /\ ~isFinite(loc[p].value)
    /\ Cardinality(DOMAIN kv) > SeriesWindow
    /\ Len(cache.series) = SeriesWindow
    /\ rebuilt("scheduled") = cache.series

\* C15: latestAtOrBefore returns a key of the array that is at or before the
\* target and that no key at or before the target exceeds, and it returns no
\* key exactly when no key is at or before the target.
C15_LatestAtOrBefore ==
    res.op = "select" =>
        LET keys == Range(res.hist)
            target == res.hourIso
        IN /\ res.ts = Undefined <=> ~\E k \in keys : k <= target
           /\ res.ts # Undefined =>
                  /\ res.ts \in keys
                  /\ res.ts <= target
                  /\ \A k \in keys : k <= target => k <= res.ts

\* C15 witness: of the keys 3 and 1 and the target 2, which is no key, the
\* selection returned 1.
C15_Witness ==
    res.op = "select" /\ res.hist = <<3, 1>> /\ res.hourIso = 2 /\ res.ts = 1

kinds(box) == [i \in 1..Len(box) |-> box[i].kind]

\* C16: whatever becomes of the notifier's fetches and whichever secrets are
\* configured, a pass leaves the per-hour entries and the cache, returns the
\* status, timestamp and value, and calls the notifier for the rules, as the
\* pass with a succeeding notifier does; no call throws or fetches more
\* than once, and with a secret absent no call fetches at all.
C16_NotifierNeverChangesPass ==
    [][res'.op = "ingest" =>
         \A ok \in {ingest(kv, env, clock,
                            [ts |-> res'.ts, value |-> res'.value], "ok")} :
            /\ kv' = ok.kv
            /\ cache' = ok.cache
            /\ res'.status = 200 /\ ok.res.status = 200
            /\ kinds(outbox') = kinds(ok.outbox)
            /\ \A i \in 1..Len(outbox') :
                   /\ ~outbox'[i].threw
                   /\ outbox'[i].fetches <= 1
                   /\ (Falsy(env.TELEGRAM_TOKEN) \/ Falsy(env.TELEGRAM_CHAT_ID))
                          => outbox'[i].fetches = 0 /\ ~outbox'[i].delivered]_vars

\* C16 witness: both rules fired; the delivery of the first alert failed,
\* the second was attempted all the same, and the pass answered 200.
C16_Witness ==
    /\ IngestWithValue
    /\ res.status = 200
    /\ Len(outbox) = 2
    /\ outbox[1].fetches = 1 /\ ~outbox[1].delivered
    /\ outbox[2].fetches = 1
    /\ kv[res.ts] = res.value

\* C17: the sequence a rebuild returns has at most SeriesWindow (72)
\* entries, is strictly ascending by timestamp, and holds exactly the numeric
\* entries among the SeriesWindow greatest per-hour keys; it is all that the
\* timeseries, the forecast and the detector see, so no older key is visible
\* to them.
C17_RebuildWindow ==
    LET out == rebuildSeries(kv)
        top == TopKeys(DOMAIN kv, SeriesWindow)
    IN /\ Len(out) <= SeriesWindow
       /\ \A i \in 1..(Len(out) - 1) : out[i].ts < out[i + 1].ts
       /\ {<<out[i].ts, out[i].pm25>> : i \in 1..Len(out)}
              = {<<k, kv[k]>> : k \in {j \in top : isFinite(kv[j])}}
       /\ cache.present => cache.series = out
       /\ (res.op = "timeseries" /\ ~res.hit) => res.series = out
       /\ (res.op = "forecast" /\ ~res.hit /\ res.status = 200) =>
              res.series = SliceFrom(out, 0 - ForecastWindow)
       /\ IngestWithValue => res.hist = histOf(out)

\* C17 witness: the store retains keep keys, and the timeseries shows the
\* SeriesWindow greatest of them and not the oldest.
C17_Witness ==
    /\ res.op = "timeseries"
    /\ Cardinality(DOMAIN kv) = keep
    /\ Len(res.series) = SeriesWindow
    /\ \A i \in 1..Len(res.series) : res.series[i].ts > SetMin(DOMAIN kv)

\* Invocation p takes the step.
stepOf(p) == pc'[p] # pc[p] \/ loc'[p] # loc[p]

\* The order of the steps of a pass: reduce, persist, list, prune, rebuild
\* (list, gets, put), detect and notify.
PassOrder ==
    {<<"idle", "put">>, <<"put", "list">>, <<"list", "prune">>,
     <<"list", "rlist">>, <<"prune", "prune">>, <<"prune", "rlist">>,
     <<"rlist", "rget">>, <<"rlist", "rput">>, <<"rget", "rget">>,
     <<"rget", "rput">>, <<"rput", "detect">>, <<"rput", "done">>,
     <<"detect", "done">>}

\* C18: the steps of a pass follow the order reduce, persist (only with a
\* value), list and prune, rebuild, detect and notify (only with a value):
\* the reading is put before the listing that decides the pruning, only the
\* prune steps delete, every pass writes the rebuilt cache, with or without
\* a value, and a pass calls the notifier only after it wrote the cache.
C18_StepOrder ==
    [][\A p \in Passes : stepOf(p) =>
          /\ <<pc[p], pc'[p]>> \in PassOrder
          /\ pc[p] = "put" =>
                 kv' = (IF isFinite(loc[p].value)
                        THEN put(kv, loc[p].ts, loc[p].value) ELSE kv)
          /\ pc[p] = "prune" => DOMAIN kv' = DOMAIN kv \ {Head(loc[p].old)}
          /\ pc[p] \notin {"put", "prune"} => kv' = kv
          /\ pc[p] = "rput" =>
                 /\ cache' = Cached(rebuilt(p))
                 /\ pc'[p] = (IF isFinite(loc[p].value) THEN "detect" ELSE "done")
          /\ pc[p] # "detect" => loc'[p].box = <<>>
          /\ pc[p] = "detect" => cache.present /\ isFinite(loc[p].value)]_vars

\* C18 witness: a pass with a value has persisted its reading, pruned the
\* oldest key, written the rebuilt cache and then called the notifier.
C18_Witness ==
    /\ pc["scheduled"] = "done" /\ pc["manual"] = "idle"
    /\ isFinite(loc["scheduled"].value)
    /\ loc["scheduled"].ts \in DOMAIN kv
    /\ 0 \notin DOMAIN kv
    /\ cache = Cached(rebuilt("scheduled"))
    /\ Len(loc["scheduled"].box) > 0

\* The rows a strategy can use: those with a timestamp and a finite value.
Usable(rows) == {i \in 1..Len(rows) : rows[i].ts # Undefined /\ isFinite(rows[i].v)}

\* The primary strategy has a value to give: the /locations call is ok and
\* a per-sensor call that is ok has a usable row at or before lastFullHour.
PrimaryHasValue(p, hourIso) ==
    /\ p.loc = "ok"
    /\ \E i \in 1..Len(p.sensors) :
          /\ p.sensors[i].ok
          /\ \E j \in Usable(p.sensors[i].rows) :
                p.sensors[i].rows[j].ts <= hourIso

\* The fallback has a value to give: the /measurements call is ok, every
\* usable row has a date that parses, and one lies in an hour at or before
\* lastFullHour.
FallbackHasValue(f, hourIso) ==
    /\ f.fetch = "ok"
    /\ \A j \in Usable(f.rows) : f.rows[j].ts # NaN
    /\ \E j \in Usable(f.rows) : f.rows[j].ts < (hourIso + 1) * TicksPerHour

\* C19: the reducer issues the fallback query exactly when the primary
\* strategy has no value to give (the adapter failed, nothing usable came
\* back, or no bucket lies at or before lastFullHour); whatever fails, it
\* returns, with a timestamp at or before lastFullHour, and its value is
\* absent exactly when neither strategy has a value to give.
C19_FallbackOnlyAfterPrimary ==
    res.op = "reduce" =>
        LET hourIso == clock - 1
        IN /\ res.fallback <=> ~PrimaryHasValue(res.primary, hourIso)
           /\ res.value = Undefined <=>
                  /\ ~PrimaryHasValue(res.primary, hourIso)
                  /\ ~FallbackHasValue(res.measurements, hourIso)
           /\ res.value # Undefined => isFinite(res.value)
           /\ isFinite(res.ts) /\ res.ts <= hourIso
           /\ res.value = Undefined => res.ts = hourIso

\* C19 witness: one per-sensor call failed, the others gave a value, and
\* the fallback was not issued although it had a value to give.
C19_Witness ==
    /\ res.op = "reduce"
    /\ res.primary.loc = "ok"
    /\ Len(res.primary.sensors) > 1 /\ ~res.primary.sensors[1].ok
    /\ isFinite(res.value)
    /\ ~res.fallback
    /\ FallbackHasValue(res.measurements, clock - 1)

\* C20: however the steps of two passes interleave, a key that is deleted
\* is not among the keep greatest keys of the store, whatever listing the
\* delete came from, so the count never falls below the smaller of keep and
\* what it was; and when both passes have completed at most keep per-hour
\* keys persist.
C20_OverlapKeepsCap ==
    [][/\ \A k \in DOMAIN kv \ DOMAIN kv' : k \notin TopKeys(DOMAIN kv, keep)
       /\ Cardinality(DOMAIN kv') >= Min2(keep, Cardinality(DOMAIN kv))
       /\ (\A p \in Passes : pc'[p] = "done") =>
              Cardinality(DOMAIN kv') <= keep]_vars

\* C20 witness: on a store at the cap the two passes persisted readings of
\* two new hours, the two oldest keys were pruned, and keep keys persist.
C20_Witness ==
    /\ \A p \in Passes : pc[p] = "done" /\ isFinite(loc[p].value)
    /\ loc["scheduled"].ts # loc["manual"].ts
    /\ {loc["scheduled"].ts, loc["manual"].ts} \subseteq DOMAIN kv
    /\ DOMAIN kv = (2..(keep + 1))

====
